---- MODULE Spec2Model ----
(***************************************************************************)
(* Ranked-poset model of src/src/polytope/mod.rs: Abstract polytopes, the  *)
(* validity predicates, dual_mut, the product algorithm and the generators *)
(* built from them.                                                        *)
(*                                                                         *)
(* Representation.  An Element is its `subs` vector: a sequence of         *)
(* naturals, the 0-based indices the code stores.  An ElementList is a     *)
(* sequence of Elements; the element with code index i is list[i + 1].     *)
(* An Abstract (RankVec<ElementList>) is the sequence of its element       *)
(* lists; the list of rank r is stored at code index r + 1, that is at     *)
(* sequence position r + 2.  A panic of the code (an index out of bounds)  *)
(* is the outcome "abort" of the operator that models the function.        *)
(***************************************************************************)
EXTENDS Integers, Sequences, FiniteSets, TLC

\* ------------------------------------------------------------------ bounds

\* polygon(n) is generated for n in 2..MaxN
MaxN == 4
\* simplex(n), hypercube(n), orthoplex(n) are generated for n in -1..MaxShapeRank
MaxShapeRank == 3
\* a result is taken over as the next operand only up to this many elements
MaxSize == 16
\* number of direct writes into an operand's lists (IndexMut / DerefMut)
MaxEdits == 1
\* how many times in a row a result or a written operand becomes the operand
\* of further calls
MaxChain == 2
\* a written subelement index is drawn from 0..MaxIdx
MaxIdx == 3

\* the integer coordinates of a vertex of a concrete dyad and of a
\* reciprocation center are drawn from -MaxCoord..MaxCoord
MaxCoord == 2

\* ------------------------------------------------------ Vec and Option

None == <<>>
Some(x) == <<x>>

\* Vec::get(i): a usize index i, None when out of bounds
Vec_get(v, i) == IF i < Len(v) THEN Some(v[i + 1]) ELSE None

\* v[i] of a Vec does not panic: the usize index is below the length.  A
\* negative isize cast to usize is a huge number, never below the length.
IndexOk(v, i) == i >= 0 /\ i < Len(v)

Seq_reverse(s) == [i \in 1..Len(s) |-> s[Len(s) + 1 - i]]

RECURSIVE Concat(_)
\* the concatenation of a sequence of sequences (pushes in iteration order)
Concat(ss) == IF ss = <<>> THEN <<>> ELSE Head(ss) \o Concat(Tail(ss))

\* how often x occurs in the sequence s
Occurrences(s, x) == Cardinality({k \in 1..Len(s) : s[k] = x})

Range(s) == {s[k] : k \in 1..Len(s)}

\* ------------------------------------------------------------- RankVec

\* RankVec::rank / Abstract::rank
rank(P) == Len(P) - 2

\* RankVec::get with the rank used as the Vec position, without the offset
\* of one
RankVec_get_no_offset(P, index) ==
    IF index < 0 THEN None ELSE Vec_get(P, index)

\* RankVec::get
RankVec_get(P, index) == IF index < -1 THEN None ELSE Vec_get(P, index + 1)

\* RankVec::get_mut
RankVec_get_mut(P, index) == IF index < -1 THEN None ELSE Vec_get(P, index + 1)

\* RankVec::index does not panic at this rank
RankOk(P, r) == IndexOk(P, r + 1)

\* RankVec::index, where it does not panic
At(P, r) == P[r + 2]

\* Abstract::el_count
el_count(P, r) ==
    LET els == RankVec_get(P, r)
    IN  IF els # None THEN Len(els[1]) ELSE 0

\* Abstract::el_counts, for rank(P) >= -1
el_counts(P) == [k \in 1..Len(P) |-> Len(P[k])]

\* ------------------------------------------------ Element, ElementList

Element_min == <<>>

Element_max(facet_count) == [k \in 1..facet_count |-> k - 1]

ElementList_min == <<Element_min>>

ElementList_max(facet_count) == <<Element_max(facet_count)>>

ElementList_vertices(vertex_count) == [k \in 1..vertex_count |-> <<0>>]

\* ------------------------------------------------------ base generators

nullitope == <<ElementList_min>>

point == <<ElementList_min, ElementList_max(1)>>

\* the dyad with a maximal element that references one vertex only
dyad_max_one == <<ElementList_min, ElementList_vertices(2), ElementList_max(1)>>

dyad == <<ElementList_min, ElementList_vertices(2), ElementList_max(2)>>

\* polygon with the first vertex index of an edge not reduced modulo n
polygon_unreduced(n) ==
    <<ElementList_min,
      [i \in 1..n |-> <<0>>],
      [i \in 1..n |-> <<i, (i + 1) % n>>],
      ElementList_max(n)>>

\* Abstract::polygon, for n >= 2 (the code asserts it)
polygon(n) ==
    <<ElementList_min,
      [i \in 1..n |-> <<0>>],
      [i \in 1..n |-> <<i % n, (i + 1) % n>>],
      ElementList_max(n)>>

\* ------------------------------------------------------ validity checks

\* the outcomes of a function returning bool that may panic
BTrue == "true"
BFalse == "false"
BAbort == "abort"

\* Abstract::has_min_max_elements
has_min_max_elements(P) == el_count(P, -1) = 1 /\ el_count(P, rank(P)) = 1

\* the body of check_incidences's loop for one rank r: "abort" when
\* self[r - 1] panics (it is evaluated once an element of rank r has a
\* subelement), "false" when a subelement is not found, else "continue"
check_incidences_rank(P, r) ==
    LET els == At(P, r)
    IN  IF \A i \in 1..Len(els) : els[i] = <<>> THEN "continue"
        ELSE IF ~RankOk(P, r - 1) THEN BAbort
        ELSE IF \E i \in 1..Len(els) : \E k \in 1..Len(els[i]) :
                    Vec_get(At(P, r - 1), els[i][k]) = None
             THEN BFalse
             ELSE "continue"

RECURSIVE check_incidences_from(_, _)
\* the loop `for r in r0..self.rank()` of check_incidences
check_incidences_from(P, r) ==
    IF r >= rank(P) THEN BTrue
    ELSE LET x == check_incidences_rank(P, r)
         IN  IF x # "continue" THEN x ELSE check_incidences_from(P, r + 1)

\* Abstract::check_incidences
check_incidences(P) == check_incidences_from(P, -1)

RECURSIVE is_dyadic_subs_no_once(_, _, _, _, _)
\* is_dyadic's loop over el.subs without the final pass that rejects a key
\* found only once
is_dyadic_subs_no_once(P, r, el, k, seen) ==
    IF k > Len(el) THEN "continue"
    ELSE IF ~IndexOk(At(P, r - 1), el[k]) THEN BAbort
    ELSE LET now == seen \o At(P, r - 1)[el[k] + 1]
         IN  IF \E x \in Range(now) : Occurrences(now, x) >= 3 THEN BFalse
             ELSE is_dyadic_subs_no_once(P, r, el, k + 1, now)

RECURSIVE is_dyadic_subs(_, _, _, _, _)
\* the loop over el.subs from position k on, with the sub-subelements seen so
\* far in `seen` (the keys of hash_sub_subs, with multiplicity): "abort" when
\* self[r - 1][sub] panics, "false" on a key found for the third time or,
\* after the loop, on a key found once, else "continue"
is_dyadic_subs(P, r, el, k, seen) ==
    IF k > Len(el)
    THEN IF \E x \in Range(seen) : Occurrences(seen, x) = 1
         THEN BFalse ELSE "continue"
    ELSE IF ~IndexOk(At(P, r - 1), el[k]) THEN BAbort
    ELSE LET now == seen \o At(P, r - 1)[el[k] + 1]
         IN  IF \E x \in Range(now) : Occurrences(now, x) >= 3 THEN BFalse
             ELSE is_dyadic_subs(P, r, el, k + 1, now)

RECURSIVE is_dyadic_els(_, _, _)
\* the loop over the elements of rank r, from position i on
is_dyadic_els(P, r, i) ==
    IF i > Len(At(P, r)) THEN "continue"
    ELSE LET x == is_dyadic_subs(P, r, At(P, r)[i], 1, <<>>)
         IN  IF x # "continue" THEN x ELSE is_dyadic_els(P, r, i + 1)

RECURSIVE is_dyadic_from(_, _)
\* the loop `for r in r0..self.rank()` of is_dyadic
is_dyadic_from(P, r) ==
    IF r >= rank(P) THEN BTrue
    ELSE LET x == is_dyadic_els(P, r, 1)
         IN  IF x # "continue" THEN x ELSE is_dyadic_from(P, r + 1)

\* Abstract::is_dyadic
is_dyadic(P) == is_dyadic_from(P, 1)

\* Abstract::full_check: the conjunction of the three checks it calls, left to
\* right with `&&` (a later check is not called once one returned false); the
\* call of is_strongly_connected is commented out in the code
full_check(P) ==
    IF ~has_min_max_elements(P) THEN BFalse
    ELSE IF check_incidences(P) # BTrue THEN check_incidences(P)
    ELSE is_dyadic(P)

\* ------------------------------------------------------------------ dual

\* dual_mut's inner loops pushing idx once for an element that lists sub,
\* however often it lists it
dual_subs_once(cur_rank, sub) ==
    Concat([i \in 1..Len(cur_rank) |->
              IF Occurrences(cur_rank[i], sub) > 0 THEN <<i - 1>> ELSE <<>>])

\* the subelement list dual_mut's inner loops leave in element `sub` of the
\* previous rank: one push of idx per occurrence of sub in cur_rank[idx].subs,
\* in increasing idx
dual_subs(cur_rank, sub) ==
    Concat([i \in 1..Len(cur_rank) |->
              [k \in 1..Occurrences(cur_rank[i], sub) |-> i - 1]])

\* dual_mut panics: self[rank] does not exist, prev_rank[sub] is out of
\* bounds for some subelement of a rank 0..=rank, or self[rank][0] does not
\* exist
dual_mut_aborts(P) ==
    \/ ~RankOk(P, rank(P))
    \/ \E r \in 0..rank(P) : \E i \in 1..Len(At(P, r)) :
          \E k \in 1..Len(At(P, r)[i]) : ~IndexOk(At(P, r - 1), At(P, r)[i][k])
    \/ At(P, rank(P)) = <<>>

\* the element lists after dual_mut's loop alone, the subelements of the
\* maximal element not cleared
dual_mut_lists_max_kept(P) ==
    [s \in 1..Len(P) |->
        IF s = Len(P)
        THEN P[s]
        ELSE [i \in 1..Len(P[s]) |-> dual_subs(P[s + 1], i - 1)]]

\* the element lists after dual_mut's loop and the clearing of the maximal
\* element's subelements, before the final reverse
dual_mut_lists(P) ==
    [s \in 1..Len(P) |->
        IF s = Len(P)
        THEN [i \in 1..Len(P[s]) |-> IF i = 1 THEN <<>> ELSE P[s][i]]
        ELSE [i \in 1..Len(P[s]) |-> dual_subs(P[s + 1], i - 1)]]

\* dual_mut without the final self.reverse()
dual_mut_unreversed(P) == dual_mut_lists(P)

\* Abstract::dual_mut / Abstract::dual, where it does not panic
dual_mut(P) == Seq_reverse(dual_mut_lists(P))

\* ------------------------------------------------ get_element_vertices

RECURSIVE get_element_vertices_aborts(_, _, _)
\* the loop `for r in (1..=rank).rev()` from rank r on, with the set of the
\* entries of `indices`, panics: self[r] or self[r][idx] is out of bounds
get_element_vertices_aborts(P, r, indices) ==
    /\ r >= 1
    /\ indices # {}
    /\ \/ ~RankOk(P, r)
       \/ \E idx \in indices : ~IndexOk(At(P, r), idx)
       \/ get_element_vertices_aborts(P, r - 1,
              UNION {Range(At(P, r)[idx + 1]) : idx \in indices})

RECURSIVE get_element_vertices_down_to_edges(_, _, _)
\* the loop ending one pass early, `for r in (2..=rank).rev()`
get_element_vertices_down_to_edges(P, r, indices) ==
    IF r < 2 \/ indices = {} THEN indices
    ELSE get_element_vertices_down_to_edges(P, r - 1,
             UNION {Range(At(P, r)[idx + 1]) : idx \in indices})

RECURSIVE get_element_vertices_down(_, _, _)
\* the same loop where it does not panic: each pass replaces the entries of
\* `indices` by the set (a HashSet) of the subelements of self[r][idx]
get_element_vertices_down(P, r, indices) ==
    IF r < 1 \/ indices = {} THEN indices
    ELSE get_element_vertices_down(P, r - 1,
             UNION {Range(At(P, r)[idx + 1]) : idx \in indices})

RECURSIVE Ascending(_)
\* the members of a set of numbers in ascending order
Ascending(S) ==
    IF S = {} THEN <<>>
    ELSE LET m == CHOOSE x \in S : \A y \in S : x <= y
         IN  <<m>> \o Ascending(S \ {m})

\* s rotated left by k places
Rotated(s, k) == [i \in 1..Len(s) |-> s[((i - 1 + k) % Len(s)) + 1]]

\* orders in which `hash_subs.into_iter().collect()` may deliver the members
\* of the set S (the iteration order of a HashSet is unspecified): the
\* rotations of the ascending and of the descending enumeration, which are
\* all the orders of a set of up to three members
HashSet_orders(S) ==
    IF S = {} THEN {<<>>}
    ELSE {Rotated(Ascending(S), k) : k \in 0..(Cardinality(S) - 1)}
         \cup {Rotated(Seq_reverse(Ascending(S)), k) : k \in 0..(Cardinality(S) - 1)}

\* the outcomes of Abstract::get_element_vertices: None for rank -1, the
\* vector [idx] when the loop has no pass, a vector of the final set in one of
\* its orders, or a panic
get_element_vertices(P, r, idx) ==
    IF r = -1 THEN {[st |-> "vec", poly |-> None]}
    ELSE IF r < 1 THEN {[st |-> "vec", poly |-> Some(<<idx>>)]}
    ELSE IF get_element_vertices_aborts(P, r, {idx})
         THEN {[st |-> "abort", poly |-> <<>>]}
         ELSE {[st |-> "vec", poly |-> Some(v)] :
                  v \in HashSet_orders(get_element_vertices_down(P, r, {idx}))}

\* --------------------------------------------------- ditope, hosotope

\* ditope_mut panics: self[rank] or self[rank][0] is out of bounds
ditope_aborts(P) == ~RankOk(P, rank(P)) \/ At(P, rank(P)) = <<>>

\* ditope_mut without the push of the cloned maximal element
ditope_no_clone(P) == Append(P, ElementList_max(2))

\* Abstract::ditope / ditope_mut, where it does not panic: a clone of the
\* first element of the top rank is pushed onto the top rank, then
\* ElementList::max(2) is pushed as the new top rank
ditope(P) ==
    Append([P EXCEPT ![Len(P)] = Append(@, @[1])], ElementList_max(2))

\* hosotope_mut panics: self[-1] or self[-1][0] is out of bounds
hosotope_aborts(P) == ~RankOk(P, -1) \/ At(P, -1) = <<>>

\* Abstract::insert at rank index: Vec::insert at position index + 1
insert(P, index, value) ==
    SubSeq(P, 1, index + 1) \o <<value>> \o SubSeq(P, index + 2, Len(P))

\* Abstract::hosotope / hosotope_mut, where it does not panic: a clone of the
\* first element of rank -1 is pushed onto rank -1, then ElementList::max(2)
\* is inserted at rank -1
hosotope(P) ==
    insert([P EXCEPT ![1] = Append(@, @[1])], -1, ElementList_max(2))

\* --------------------------------------------------------------- product

\* Abstract::push_min, past its debug assertion: `self.push(ElementList::min())`
push_min(P) == Append(P, ElementList_min)

\* Abstract::push_vertices, past its debug assertion
push_vertices(P, vertex_count) == Append(P, ElementList_vertices(vertex_count))

\* push_max counting the elements one rank below the top one
push_max_below_top(P) == Append(P, ElementList_max(el_count(P, rank(P) - 1)))

\* Abstract::push_max
push_max(P) == Append(P, ElementList_max(el_count(P, rank(P))))

\* `b as isize` of a bool
AsInt(b) == IF b THEN 1 ELSE 0

\* p_low = q_low = -(min as isize)
prod_low(min) == 0 - AsInt(min)

\* p_hi = p_rank - (!max as isize), and q_hi alike
prod_hi(f, max) == rank(f) - AsInt(~max)

\* the product rank without the deduction for a synthesized maximal element
product_rank_no_max(f, g, min, max) ==
    rank(f) + rank(g) + 1 - AsInt(~min)

\* the rank computed at the top of Abstract::product
product_rank(f, g, min, max) ==
    rank(f) + rank(g) + 1 - AsInt(~min) - AsInt(~max)

RECURSIVE offset_memo(_, _, _, _, _, _)
\* offset_memo[p_rank - p_low][q_rank - q_low], for p_rank in p_low..=p_hi
\* and q_rank in q_low..=q_hi
offset_memo(f, g, min, max, p_rank, q_rank) ==
    (IF p_rank = prod_low(min) \/ q_rank = prod_hi(g, max)
     THEN 0
     ELSE offset_memo(f, g, min, max, p_rank - 1, q_rank + 1))
    + el_count(f, p_rank) * el_count(g, q_rank)

\* the closure `offset`: the memoized value, or 0 when a usize index is out
\* of range
offset(f, g, min, max, p_rank, q_rank) ==
    IF /\ p_rank - prod_low(min) >= 0
       /\ p_rank - prod_low(min) < prod_hi(f, max) - prod_low(min) + 1
       /\ q_rank - prod_low(min) >= 0
       /\ q_rank - prod_low(min) < prod_hi(g, max) - prod_low(min) + 1
    THEN offset_memo(f, g, min, max, p_rank, q_rank)
    ELSE 0

\* `get_element_index` reading the offset of its own rank pair instead of the
\* pair before it
get_element_index_own_offset(f, g, min, max, p_rank, p_idx, q_rank, q_idx) ==
    offset(f, g, min, max, p_rank, q_rank)
    + p_idx * el_count(g, q_rank) + q_idx

\* the closure `get_element_index`
get_element_index(f, g, min, max, p_rank, p_idx, q_rank, q_idx) ==
    offset(f, g, min, max, p_rank - 1, q_rank + 1)
    + p_idx * el_count(g, q_rank) + q_idx

\* the subelements pushed for the pair (p_idx of rank p_els_rank, q_idx of
\* rank q_els_rank)
product_subs(f, g, min, max, p_els_rank, p_idx, q_els_rank, q_idx) ==
    LET p_el == At(f, p_els_rank)[p_idx + 1]
        q_el == At(g, q_els_rank)[q_idx + 1]
    IN  (IF p_els_rank # 0 \/ min
         THEN [k \in 1..Len(p_el) |->
                 get_element_index(f, g, min, max,
                                   p_els_rank - 1, p_el[k], q_els_rank, q_idx)]
         ELSE <<>>)
        \o
        (IF q_els_rank # 0 \/ min
         THEN [k \in 1..Len(q_el) |->
                 get_element_index(f, g, min, max,
                                   p_els_rank, p_idx, q_els_rank - 1, q_el[k])]
         ELSE <<>>)

\* the pairs of one prod_rank with the two innermost loops exchanged: q_idx
\* outside, p_idx inside
product_pairs_q_outer(f, g, min, max, prod_rank) ==
    LET lo == prod_low(min)
        rows == [n \in 1..(prod_hi(f, max) - lo + 1) |->
                   LET p_els_rank == lo + n - 1
                       q_els_rank == prod_rank - p_els_rank - AsInt(min)
                   IN  IF q_els_rank < lo \/ q_els_rank > prod_hi(g, max)
                       THEN <<>>
                       ELSE Concat([j \in 1..Len(At(g, q_els_rank)) |->
                                      [i \in 1..Len(At(f, p_els_rank)) |->
                                         <<p_els_rank, i - 1, q_els_rank, j - 1>>]])]
    IN  Concat(rows)

\* the pairs <<p_els_rank, p_idx, q_els_rank, q_idx>> in the order the three
\* nested loops of one prod_rank push their elements: p_els_rank ascending
\* over p_low..=p_hi (skipping a q_els_rank outside q_low..=q_hi), then
\* p_idx, then q_idx
product_pairs(f, g, min, max, prod_rank) ==
    LET lo == prod_low(min)
        rows == [n \in 1..(prod_hi(f, max) - lo + 1) |->
                   LET p_els_rank == lo + n - 1
                       q_els_rank == prod_rank - p_els_rank - AsInt(min)
                   IN  IF q_els_rank < lo \/ q_els_rank > prod_hi(g, max)
                       THEN <<>>
                       ELSE Concat([i \in 1..Len(At(f, p_els_rank)) |->
                                      [j \in 1..Len(At(g, q_els_rank)) |->
                                         <<p_els_rank, i - 1, q_els_rank, j - 1>>]])]
    IN  Concat(rows)

\* the element lists after the main loop `for prod_rank in -1..=rank`
product_loop(f, g, min, max) ==
    [s \in 1..(product_rank(f, g, min, max) + 2) |->
        LET pairs == product_pairs(f, g, min, max, s - 2)
        IN  [n \in 1..Len(pairs) |->
               product_subs(f, g, min, max,
                            pairs[n][1], pairs[n][2], pairs[n][3], pairs[n][4])]]

\* `if !min { product[-1] = ...; product[0] = ... }`, where it does not panic
product_set_min(f, g, min, L) ==
    IF min THEN L
    ELSE [s \in 1..Len(L) |->
            IF s = 1 THEN ElementList_min
            ELSE IF s = 2
                 THEN ElementList_vertices(el_count(f, 0) * el_count(g, 0))
                 ELSE L[s]]

\* `if !max { product[rank] = ... }`, where it does not panic
product_set_max(max, L) ==
    IF max THEN L
    ELSE [s \in 1..Len(L) |->
            IF s = Len(L) THEN ElementList_max(el_count(L, rank(L) - 1))
            ELSE L[s]]

\* Abstract::product panics: product[-1], product[0] (when !min) or
\* product[rank] (when !max) is out of bounds
product_aborts(f, g, min, max) ==
    \/ ~min /\ product_rank(f, g, min, max) < 0
    \/ ~max /\ product_rank(f, g, min, max) < -1

\* Abstract::product, where it does not panic
product(f, g, min, max) ==
    product_set_max(max, product_set_min(f, g, min, product_loop(f, g, min, max)))

duopyramid(f, g) == product(f, g, TRUE, TRUE)

duoprism(f, g) == product(f, g, FALSE, TRUE)

duotegum(f, g) == product(f, g, TRUE, FALSE)

duocomb(f, g) == product(f, g, FALSE, FALSE)

\* ------------------------------------------------- multiproduct, shapes

\* the flag pair of each of the four named products
ProductKinds == {"duopyramid", "duoprism", "duotegum", "duocomb"}

kind_min(kind) == kind \in {"duopyramid", "duotegum"}

kind_max(kind) == kind \in {"duopyramid", "duoprism"}

\* the identity each of the four multiproducts passes to multiproduct
kind_identity(kind) == IF kind = "duopyramid" THEN nullitope ELSE point

\* the name of the multiproduct built on each binary product
kind_multi(kind) ==
    CASE kind = "duopyramid" -> "multipyramid"
      [] kind = "duoprism" -> "multiprism"
      [] kind = "duotegum" -> "multitegum"
      [] kind = "duocomb" -> "multicomb"

MultiNames == {kind_multi(kind) : kind \in ProductKinds}

RECURSIVE multiproduct_no_single(_, _, _)
\* multiproduct without the case of exactly one factor: a single factor is
\* multiplied with the identity
multiproduct_no_single(kind, factors, identity) ==
    IF Len(factors) = 0 THEN identity
    ELSE product(Head(factors),
                 multiproduct_no_single(kind, Tail(factors), identity),
                 kind_min(kind), kind_max(kind))

RECURSIVE multiproduct(_, _, _)
\* Polytope::multiproduct: the identity, the single factor, or the binary
\* product of the first factor with the multiproduct of the others
multiproduct(kind, factors, identity) ==
    IF Len(factors) = 0 THEN identity
    ELSE IF Len(factors) = 1 THEN factors[1]
    ELSE product(Head(factors), multiproduct(kind, Tail(factors), identity),
                 kind_min(kind), kind_max(kind))

RECURSIVE multiproduct_aborts(_, _, _)
\* Polytope::multiproduct panics: one of the binary products it calls does
multiproduct_aborts(kind, factors, identity) ==
    IF Len(factors) <= 1 THEN FALSE
    ELSE \/ multiproduct_aborts(kind, Tail(factors), identity)
         \/ product_aborts(Head(factors),
                           multiproduct(kind, Tail(factors), identity),
                           kind_min(kind), kind_max(kind))

multipyramid(factors) == multiproduct("duopyramid", factors, nullitope)

multiprism(factors) == multiproduct("duoprism", factors, point)

multitegum(factors) == multiproduct("duotegum", factors, point)

multicomb(factors) == multiproduct("duocomb", factors, point)

\* simplex as the multipyramid of rank points instead of rank + 1
simplex_one_short(n) == multipyramid([k \in 1..n |-> point])

\* Polytope::simplex, for n >= -1
simplex(n) == multipyramid([k \in 1..(n + 1) |-> point])

\* hypercube built with the tegum product instead of the prism product
hypercube_as_tegum(n) ==
    IF n = -1 THEN nullitope ELSE multitegum([k \in 1..n |-> dyad])

\* Polytope::hypercube, for n >= -1
hypercube(n) == IF n = -1 THEN nullitope ELSE multiprism([k \in 1..n |-> dyad])

\* Polytope::orthoplex, for n >= -1
orthoplex(n) == IF n = -1 THEN nullitope ELSE multitegum([k \in 1..n |-> dyad])

\* -------------------------------------------------- points and subspaces

\* A coordinate (f64 in the code) is an exact rational <<n, d>>, d > 0, in
\* lowest terms; a Point is a sequence of coordinates.

RECURSIVE Gcd(_, _)
Gcd(a, b) == IF b = 0 THEN a ELSE Gcd(b, a % b)

Abs(x) == IF x < 0 THEN 0 - x ELSE x

\* the rational n / d (d # 0) in lowest terms with a positive denominator
Rat(n, d) ==
    LET g == Gcd(Abs(n), Abs(d))
        sgn == IF d < 0 THEN -1 ELSE 1
    IN  <<sgn * (n \div g), sgn * (d \div g)>>

\* sums and differences are taken over the least common denominator, and
\* products are reduced crosswise before they are multiplied
RAdd(x, y) ==
    LET g == Gcd(x[2], y[2])
    IN  Rat(x[1] * (y[2] \div g) + y[1] * (x[2] \div g), (x[2] \div g) * y[2])

RSub(x, y) == RAdd(x, <<0 - y[1], y[2]>>)

RMul(x, y) ==
    LET a == Rat(x[1], y[2])
        b == Rat(y[1], x[2])
    IN  <<a[1] * b[1], a[2] * b[2]>>

\* x / y for y # 0
RDiv(x, y) == RMul(x, Rat(y[2], y[1]))

RZero == <<0, 1>>

\* the point with the integer coordinates cs
PointOf(cs) == [k \in 1..Len(cs) |-> <<cs[k], 1>>]

VAdd(v, w) == [k \in 1..Len(v) |-> RAdd(v[k], w[k])]

VSub(v, w) == [k \in 1..Len(v) |-> RSub(v[k], w[k])]

\* v * t and v / t for a rational t
VMul(v, t) == [k \in 1..Len(v) |-> RMul(v[k], t)]

VDiv(v, t) == [k \in 1..Len(v) |-> RDiv(v[k], t)]

RECURSIVE RSum(_)
RSum(xs) == IF xs = <<>> THEN RZero ELSE RAdd(Head(xs), RSum(Tail(xs)))

Dot(v, w) == RSum([k \in 1..Len(v) |-> RMul(v[k], w[k])])

\* norm_squared
NormSquared(v) == Dot(v, v)

\* The affine subspace type is the record of its offset point and of its
\* orthogonal basis directions, which are kept as they come out of the
\* orthogonalisation, without being scaled to length 1.

\* Subspace::new(p): the subspace that is the single point p
Subspace_new(point_) == [offset |-> point_, basis |-> <<>>]

RECURSIVE Subspace_residual(_, _)
\* what is left of the vector v once its components along the basis
\* directions are taken away
Subspace_residual(basis, v) ==
    IF basis = <<>> THEN v
    ELSE LET b == Head(basis)
         IN  Subspace_residual(Tail(basis),
                 VSub(v, VMul(b, RDiv(Dot(v, b), NormSquared(b)))))

\* Subspace::add(v): b is the new orthogonal basis direction, or None when v
\* already lies in the subspace h, and h is the subspace afterwards
Subspace_add(h, v) ==
    LET w == Subspace_residual(h.basis, VSub(v, h.offset))
    IN  IF \A k \in 1..Len(w) : w[k] = RZero
        THEN [b |-> None, h |-> h]
        ELSE [b |-> Some(w), h |-> [h EXCEPT !.basis = Append(h.basis, w)]]

RECURSIVE Subspace_add_all(_, _, _)
\* the points from position k on added to h one after the other
Subspace_add_all(h, points, k) ==
    IF k > Len(points) THEN h
    ELSE Subspace_add_all(Subspace_add(h, points[k]).h, points, k + 1)

\* Subspace::from_points(points), for at least one point: the affine hull
Subspace_from_points(points) ==
    Subspace_add_all(Subspace_new(points[1]), points, 2)

\* Subspace::from_points(points).project(x): the orthogonal projection of x
\* onto the affine hull of the points
Subspace_project(points, x) ==
    LET h == Subspace_from_points(points)
    IN  VSub(x, Subspace_residual(h.basis, VSub(x, h.offset)))

\* `m * v` for a Matrix m, the sequence of its rows
Matrix_mul(m, v) == [r \in 1..Len(m) |-> Dot(m[r], v)]

\* -------------------------------------------------------------- Concrete

\* A Concrete is the record of its two fields, vertices and abs.

\* `const EPS: f64 = 1e-9`, as its inverse
EpsInverse == 1000000000

\* the rational s >= 0 is below EPS: s[1] * EpsInverse < s[2]
BelowEps(s) == s[1] <= (s[2] - 1) \div EpsInverse

\* Concrete::get_element_vertices, where it returns Some: the points of the
\* vertices of the element, here in ascending order of their indices (the
\* affine hull taken of them does not depend on the order)
Concrete_get_element_vertices(c, r, idx) ==
    LET indices == Ascending(get_element_vertices_down(c.abs, r, {idx}))
    IN  [k \in 1..Len(indices) |-> c.vertices[indices[k] + 1]]

RECURSIVE reciprocate(_, _, _)
\* the loop `for v in projections.iter_mut()` from position k on: ok is FALSE
\* when a point within EPS of o made it return early, and projections is the
\* local vector as the loop left it
reciprocate(projections, o, k) ==
    IF k > Len(projections) THEN [ok |-> TRUE, projections |-> projections]
    ELSE LET v == VSub(projections[k], o)
             s == NormSquared(v)
         IN  IF BelowEps(s)
             THEN [ok |-> FALSE, projections |-> [projections EXCEPT ![k] = v]]
             ELSE reciprocate([projections EXCEPT ![k] = VAdd(VDiv(v, s), o)],
                              o, k + 1)

\* the local `projections` before the reciprocation loop: the projections of
\* o onto the facets for rank >= 2, a clone of the vertices for rank 1
facet_projections(c, o) ==
    IF rank(c.abs) >= 2
    THEN [n \in 1..el_count(c.abs, rank(c.abs) - 1) |->
            Subspace_project(
                Concrete_get_element_vertices(c, rank(c.abs) - 1, n - 1), o)]
    ELSE c.vertices

\* dual_mut_with_sphere panics: get_element_vertices or the abstract dual_mut
\* does
dual_mut_with_sphere_aborts(c, center) ==
    /\ rank(c.abs) >= 1
    /\ \/ /\ rank(c.abs) >= 2
          /\ \E n \in 1..el_count(c.abs, rank(c.abs) - 1) :
                get_element_vertices_aborts(c.abs, rank(c.abs) - 1, {n - 1})
       \/ dual_mut_aborts(c.abs)

\* dual_mut_with_sphere without `self.vertices = projections`: the abstract
\* polytope is dualised and the vertices stay the old ones
dual_mut_with_sphere_vertices_kept(c, center) ==
    IF rank(c.abs) < 1 THEN [ret |-> "Some", self |-> c]
    ELSE LET o == Subspace_project(c.vertices, center)
             r == reciprocate(facet_projections(c, o), o, 1)
         IN  IF ~r.ok
             THEN [ret |-> "None", self |-> c]
             ELSE [ret |-> "Some",
                   self |-> [vertices |-> c.vertices, abs |-> dual_mut(c.abs)]]

\* dual_mut_with_sphere running its loop on self.vertices where the local
\* vector is a clone of them, at rank 1: an early return leaves the points
\* reciprocated so far in place
dual_mut_with_sphere_in_place(c, center) ==
    IF rank(c.abs) < 1 THEN [ret |-> "Some", self |-> c]
    ELSE LET o == Subspace_project(c.vertices, center)
             r == reciprocate(facet_projections(c, o), o, 1)
         IN  IF ~r.ok
             THEN [ret |-> "None",
                   self |-> IF rank(c.abs) = 1
                            THEN [vertices |-> r.projections, abs |-> c.abs]
                            ELSE c]
             ELSE [ret |-> "Some",
                   self |-> [vertices |-> r.projections, abs |-> dual_mut(c.abs)]]

\* Concrete::dual_mut_with_sphere, where it does not panic: what it returns
\* (Some(self) or None) and the instance afterwards; only the center of the
\* sphere is read
dual_mut_with_sphere(c, center) ==
    IF rank(c.abs) < 1 THEN [ret |-> "Some", self |-> c]
    ELSE LET o == Subspace_project(c.vertices, center)
             r == reciprocate(facet_projections(c, o), o, 1)
         IN  IF ~r.ok
             THEN [ret |-> "None", self |-> c]
             ELSE [ret |-> "Some",
                   self |-> [vertices |-> r.projections, abs |-> dual_mut(c.abs)]]

\* Concrete::dim: the length of the first vertex, None without vertices
dim(c) == IF c.vertices = <<>> THEN None ELSE Some(Len(c.vertices[1]))

\* Concrete::scale: `*v *= k` on every vertex
scale(c, k) ==
    [vertices |-> [i \in 1..Len(c.vertices) |-> VMul(c.vertices[i], k)],
     abs |-> c.abs]

\* Concrete::shift with every vertex moved towards o instead of away from it
shift_added(c, o) ==
    [vertices |-> [i \in 1..Len(c.vertices) |-> VAdd(c.vertices[i], o)],
     abs |-> c.abs]

\* Concrete::shift: `*v -= &o` on every vertex
shift(c, o) ==
    [vertices |-> [i \in 1..Len(c.vertices) |-> VSub(c.vertices[i], o)],
     abs |-> c.abs]

RECURSIVE VSum(_, _)
\* `g += v` over the vertices, from the zero vector g
VSum(g, vs) == IF vs = <<>> THEN g ELSE VSum(VAdd(g, Head(vs)), Tail(vs))

\* Concrete::gravicenter: None without vertices (`self.dim()?`), else the
\* sum of the vertices divided by their number
gravicenter(c) ==
    IF dim(c) = None THEN None
    ELSE Some(VDiv(VSum([k \in 1..dim(c)[1] |-> RZero], c.vertices),
                   <<Len(c.vertices), 1>>))

\* Concrete::recenter
recenter(c) ==
    IF gravicenter(c) # None THEN shift(c, gravicenter(c)[1]) ELSE c

\* Concrete::apply: `*v = m * v.clone()` on every vertex
apply(c, m) ==
    [vertices |-> [i \in 1..Len(c.vertices) |-> Matrix_mul(m, c.vertices[i])],
     abs |-> c.abs]

\* Concrete::circumsphere panics: `vertices.next().expect(...)` finds no
\* first vertex
circumsphere_aborts(c) == c.vertices = <<>>

\* `(x.norm() - y.norm()).abs() > EPS` may be true of the squared norms A
\* and B: they differ
norms_may_differ(A, B) == A # B

\* the same comparison may be false: A = B, or |A - B| * EpsInverse is at
\* most A + B + 2, a bound above the sum of the two norms (decided where it
\* is sure; where neither is, both outcomes stay possible)
norms_may_agree(A, B) ==
    \/ A = B
    \/ LET D == IF RSub(A, B)[1] < 0 THEN RSub(B, A) ELSE RSub(A, B)
           q == RDiv(RAdd(RAdd(A, B), <<2, 1>>), D)
       IN  q[1] \div q[2] >= EpsInverse

RECURSIVE circumsphere_loop(_, _, _, _, _)
\* the loop `for v in vertices` of circumsphere from position k on, with the
\* running center o and subspace h, and the values it may return after it;
\* the radius, a square root, is kept as its square
circumsphere_loop(vertices, k, v0, o, h) ==
    IF k > Len(vertices)
    THEN {Some([center |-> o, radius_squared |-> NormSquared(VSub(o, v0))])}
    ELSE LET v == vertices[k]
             added == Subspace_add(h, v)
             A == NormSquared(VSub(o, v0))
             B == NormSquared(VSub(o, v))
         IN  IF added.b # None
             THEN LET b == added.b[1]
                      t == RDiv(RSub(B, A),
                                RMul(<<2, 1>>, Dot(VSub(v, v0), b)))
                  IN  circumsphere_loop(vertices, k + 1, v0,
                                        VAdd(o, VMul(b, t)), added.h)
             ELSE (IF norms_may_differ(A, B) THEN {None} ELSE {})
                  \cup (IF norms_may_agree(A, B)
                        THEN circumsphere_loop(vertices, k + 1, v0, o, h)
                        ELSE {})

\* Concrete::circumsphere, where it does not panic: the values it may return
circumsphere(c) ==
    circumsphere_loop(c.vertices, 2, c.vertices[1], c.vertices[1],
                      Subspace_new(c.vertices[1]))

\* ------------------------------------------- Polytope (vertices, elements)

\* A Polytope is the record of its fields vertices, elements (elements[d] the
\* d-elements by their (d - 1)-elements, edges first), extra_vertices and
\* triangles.

RECURSIVE graph_component(_, _)
\* the nodes joined to a node of S by a path in the undirected graph of the
\* edges E
graph_component(E, S) ==
    LET T == S \cup {e[2] : e \in {d \in E : d[1] \in S}}
               \cup {e[1] : e \in {d \in E : d[2] \in S}}
    IN  IF T = S THEN S ELSE graph_component(E, T)

\* petgraph::algo::kosaraju_scc on the undirected graph of the nodes 0..N-1
\* and the edges E: its connected components, each once. The order of the
\* components and of the nodes in one is the library's; here they come
\* ascending or descending, by the least node of each component.
kosaraju_scc(N, E) ==
    LET roots == Ascending({n \in 0..(N - 1) :
                               \A x \in graph_component(E, {n}) : n <= x})
        asc == [k \in 1..Len(roots) |-> Ascending(graph_component(E, {roots[k]}))]
        desc == [k \in 1..Len(asc) |-> Seq_reverse(asc[k])]
    IN  {asc, Seq_reverse(asc), desc, Seq_reverse(desc)}

\* Polytope::triangulate panics: a face without indices, an edge index out of
\* bounds, a first edge without vertices, or a later edge not of two vertices
triangulate_aborts(edges, faces) ==
    \E f \in 1..Len(faces) :
        \/ faces[f] = <<>>
        \/ \E k \in 1..Len(faces[f]) : faces[f][k] >= Len(edges)
        \/ edges[faces[f][1] + 1] = <<>>
        \/ \E k \in 2..Len(faces[f]) : Len(edges[faces[f][k] + 1]) # 2

\* Polytope::triangulate, where it does not panic: for every face, the first
\* vertex of its first edge with each later edge that does not hold it
triangulate(edges, faces) ==
    Concat([f \in 1..Len(faces) |->
        LET vert_i == edges[faces[f][1] + 1][1]
        IN  Concat([k \in 1..(Len(faces[f]) - 1) |->
                LET edge == edges[faces[f][k + 1] + 1]
                IN  IF vert_i # edge[1] /\ vert_i # edge[2]
                    THEN <<<<vert_i, edge[1], edge[2]>>>>
                    ELSE <<>>])])

\* the outcomes of Polytope::new_wo_comps: a panic (the assertion on the
\* rank, an edge of the graph to a node that was not added, or triangulate
\* called by Polytope::new), or the polytope with the components pushed, one
\* for each order in which the components may come
new_wo_comps(vertices, elements) ==
    IF Len(elements) + 1 < 2 THEN {[st |-> "abort", poly |-> <<>>]}
    ELSE LET rank_ == Len(elements) + 1
             num_ridges == IF rank_ >= 3 THEN Len(elements[rank_ - 2])
                           ELSE Len(vertices)
             facets == elements[rank_ - 1]
             num_facets == Len(facets)
             E == UNION {{<<facets[i][k], num_ridges + i - 1>> :
                             k \in 1..Len(facets[i])} : i \in 1..num_facets}
         IN  IF \E e \in E : e[1] >= num_ridges + num_facets
             THEN {[st |-> "abort", poly |-> <<>>]}
             ELSE {LET comps == [c \in 1..Len(g_comps) |->
                                   SelectSeq(g_comps[c],
                                             LAMBDA idx : idx < num_ridges)]
                       els == Append(elements, comps)
                   IN  IF triangulate_aborts(els[1], els[2])
                       THEN [st |-> "abort", poly |-> <<>>]
                       ELSE [st |-> "ok",
                             poly |-> [vertices |-> vertices,
                                       elements |-> els,
                                       extra_vertices |-> <<>>,
                                       triangles |-> triangulate(els[1], els[2])]] :
                   g_comps \in kosaraju_scc(num_ridges + num_facets, E)}

\* ---------------------------------------------------------- state machine

RECURSIVE SumSeq(_)
SumSeq(s) == IF s = <<>> THEN 0 ELSE Head(s) + SumSeq(Tail(s))

\* the number of elements of all ranks
Size(P) == SumSeq(el_counts(P))

\* the second factors the binary products are called with
Factors == {nullitope, point, dyad, polygon(3)}

VARIABLES
    p,       \* the Abstract the operations are applied to
    edits,   \* how many direct writes p has received
    chain,   \* how many results and writes led to p
    foreign, \* whether anything else than the generators, the products, dual
             \* and ditope went into p: hosotope, or the operand Abstract::new()
    res,     \* the outcome of the last operation: st "ok" with the Abstract
             \* returned, st "abort" for a panic, st "none" before any
    op,      \* the last operation: its name, its numeric argument n and, for a
             \* binary product, its two factors f and g
    verdict, \* what the validity predicates returned when last called on p
    conc     \* the Concrete instance the geometric operations are applied to

vars == <<p, edits, chain, foreign, res, op, verdict, conc>>

NoRes == [st |-> "none", poly |-> <<>>]

Ok(P) == [st |-> "ok", poly |-> P]

Aborted == [st |-> "abort", poly |-> <<>>]

Op(name, n, f, g) == [name |-> name, n |-> n, f |-> f, g |-> g]

NoVerdict == [mm |-> FALSE, inc |-> "none", dy |-> "none", full |-> "none"]

\* no Concrete instance
NoConcrete == [vertices |-> <<>>, abs |-> <<>>]

Init ==
    /\ p = <<>>
    /\ edits = 0
    /\ chain = 0
    /\ foreign = FALSE
    /\ res = NoRes
    /\ op = Op("init", 0, <<>>, <<>>)
    /\ verdict = NoVerdict
    /\ conc = NoConcrete

\* the names of the generator calls
GenNames ==
    {"nullitope", "point", "dyad", "polygon", "simplex", "hypercube", "orthoplex"}

\* no call has returned yet whose result was not taken over
Idle == res.st = "none"

\* a generator call, made on a fresh start (p is still Abstract::new()); r is
\* its outcome
Generate(name, n, r) ==
    /\ Idle
    /\ p = <<>>
    /\ res' = r
    /\ op' = Op(name, n, <<>>, <<>>)
    /\ UNCHANGED <<p, edits, chain, foreign, verdict, conc>>

GenNullitope == Generate("nullitope", 0, Ok(nullitope))

GenPoint == Generate("point", 0, Ok(point))

GenDyad == Generate("dyad", 0, Ok(dyad))

GenPolygon == \E n \in 2..MaxN : Generate("polygon", n, Ok(polygon(n)))

GenSimplex ==
    \E n \in -1..MaxShapeRank :
        Generate("simplex", n,
                 IF multiproduct_aborts("duopyramid", [k \in 1..(n + 1) |-> point],
                                        nullitope)
                 THEN Aborted ELSE Ok(simplex(n)))

GenHypercube ==
    \E n \in -1..MaxShapeRank :
        Generate("hypercube", n,
                 IF n # -1 /\ multiproduct_aborts("duoprism", [k \in 1..n |-> dyad],
                                                  point)
                 THEN Aborted ELSE Ok(hypercube(n)))

GenOrthoplex ==
    \E n \in -1..MaxShapeRank :
        Generate("orthoplex", n,
                 IF n # -1 /\ multiproduct_aborts("duotegum", [k \in 1..n |-> dyad],
                                                  point)
                 THEN Aborted ELSE Ok(orthoplex(n)))

\* Abstract::dual on p
Dual ==
    /\ Idle
    /\ res' = IF dual_mut_aborts(p) THEN Aborted ELSE Ok(dual_mut(p))
    /\ op' = Op("dual", 0, <<>>, <<>>)
    /\ UNCHANGED <<p, edits, chain, foreign, verdict, conc>>

\* one of the four binary products, of p with a factor, in either order
Product ==
    \E kind \in ProductKinds, q \in Factors, swap \in BOOLEAN :
        LET f == IF swap THEN q ELSE p
            g == IF swap THEN p ELSE q
        IN  /\ Idle
            /\ res' = IF product_aborts(f, g, kind_min(kind), kind_max(kind))
                      THEN Aborted
                      ELSE Ok(product(f, g, kind_min(kind), kind_max(kind)))
            /\ op' = Op(kind, 0, f, g)
            /\ UNCHANGED <<p, edits, chain, foreign, verdict, conc>>

\* Abstract::ditope on p
Ditope ==
    /\ Idle
    /\ res' = IF ditope_aborts(p) THEN Aborted ELSE Ok(ditope(p))
    /\ op' = Op("ditope", 0, <<>>, <<>>)
    /\ UNCHANGED <<p, edits, chain, foreign, verdict, conc>>

\* Abstract::hosotope on p
Hosotope ==
    /\ Idle
    /\ res' = IF hosotope_aborts(p) THEN Aborted ELSE Ok(hosotope(p))
    /\ op' = Op("hosotope", 0, <<>>, <<>>)
    /\ UNCHANGED <<p, edits, chain, foreign, verdict, conc>>

\* the ranks get_element_vertices is asked for: the top rank and the facet
\* rank of p
VertexRanks == {-2} \cup {r \in {rank(p) - 1, rank(p)} : r >= -1}

\* Abstract::get_element_vertices(r, idx) on p; n is r and g is idx
GetElementVertices ==
    \E r \in VertexRanks, idx \in 0..1 :
    \E v \in get_element_vertices(p, r, idx) :
        /\ Idle
        /\ res' = v
        /\ op' = Op("get_element_vertices", r, <<>>, idx)
        /\ UNCHANGED <<p, edits, chain, foreign, verdict, conc>>

\* RankVec::get, RankVec::get_mut and Abstract::el_count called on p with a
\* rank from two below the minimal rank to two above the top rank
Lookup ==
    \E r \in -3..(rank(p) + 2) :
        /\ Idle
        /\ res' = [st |-> "get",
                   poly |-> [get |-> RankVec_get(p, r),
                             get_mut |-> RankVec_get_mut(p, r),
                             el_count |-> el_count(p, r)]]
        /\ op' = Op("get", r, <<>>, <<>>)
        /\ UNCHANGED <<p, edits, chain, foreign, verdict, conc>>

\* the factor lists a multiproduct is called with: none, p alone, p with a
\* second factor
FactorLists == {<<>>, <<p>>, <<p, dyad>>, <<point, p>>}

\* multipyramid, multiprism, multitegum or multicomb of a list of factors
Multi ==
    \E kind \in ProductKinds, factors \in FactorLists :
        /\ Idle
        /\ res' = IF multiproduct_aborts(kind, factors, kind_identity(kind))
                  THEN Aborted
                  ELSE Ok(multiproduct(kind, factors, kind_identity(kind)))
        /\ op' = Op(kind_multi(kind), Len(factors), factors, <<>>)
        /\ UNCHANGED <<p, edits, chain, foreign, verdict, conc>>

\* has_min_max_elements, check_incidences, is_dyadic and full_check called
\* on p
Check ==
    /\ Idle
    /\ verdict' = [mm |-> has_min_max_elements(p),
                   inc |-> check_incidences(p),
                   dy |-> is_dyadic(p),
                   full |-> full_check(p)]
    /\ op' = Op("check", 0, <<>>, <<>>)
    /\ res' = [st |-> "bool", poly |-> <<>>]
    /\ UNCHANGED <<p, edits, chain, foreign, conc>>

\* the returned Abstract becomes the operand of the next calls
Adopt ==
    /\ chain < MaxChain
    /\ res.st = "ok"
    /\ Size(res.poly) <= MaxSize
    /\ p' = res.poly
    /\ res' = NoRes
    /\ op' = Op("adopt", 0, <<>>, <<>>)
    /\ verdict' = NoVerdict
    /\ chain' = chain + 1
    /\ foreign' = (foreign \/ op.name = "hosotope"
                            \/ (p = <<>> /\ op.name \notin GenNames))
    /\ UNCHANGED <<edits, conc>>

\* a direct write into p (everything derefs mutably to Vec and `subs` is a
\* public field): overwrite one subelement index
SetSub ==
    /\ Idle
    /\ edits < MaxEdits
    /\ chain < MaxChain
    /\ \E s \in 1..Len(p) : \E i \in 1..Len(p[s]) : \E k \in 1..Len(p[s][i]) :
       \E v \in 0..MaxIdx :
          /\ v # p[s][i][k]
          /\ p' = [p EXCEPT ![s][i][k] = v]
    /\ edits' = edits + 1
    /\ chain' = chain + 1
    /\ op' = Op("edit", 0, <<>>, <<>>)
    /\ UNCHANGED <<foreign, res, verdict, conc>>

\* a direct write into p: push one more subelement index onto an element
PushSub ==
    /\ Idle
    /\ edits < MaxEdits
    /\ chain < MaxChain
    /\ \E s \in 1..Len(p) : \E i \in 1..Len(p[s]) : \E v \in 0..MaxIdx :
          p' = [p EXCEPT ![s][i] = Append(@, v)]
    /\ edits' = edits + 1
    /\ chain' = chain + 1
    /\ op' = Op("edit", 0, <<>>, <<>>)
    /\ UNCHANGED <<foreign, res, verdict, conc>>

\* a direct write into p: pop the last element of one rank
PopEl ==
    /\ Idle
    /\ edits < MaxEdits
    /\ chain < MaxChain
    /\ \E s \in 1..Len(p) :
          /\ p[s] # <<>>
          /\ p' = [p EXCEPT ![s] = SubSeq(@, 1, Len(@) - 1)]
    /\ edits' = edits + 1
    /\ chain' = chain + 1
    /\ op' = Op("edit", 0, <<>>, <<>>)
    /\ UNCHANGED <<foreign, res, verdict, conc>>

\* a direct write into p: push Element::new(), an element without
\* subelements, onto one rank
PushEl ==
    /\ Idle
    /\ edits < MaxEdits
    /\ chain < MaxChain
    /\ \E s \in 1..Len(p) : p' = [p EXCEPT ![s] = Append(@, Element_min)]
    /\ edits' = edits + 1
    /\ chain' = chain + 1
    /\ op' = Op("edit", 0, <<>>, <<>>)
    /\ UNCHANGED <<foreign, res, verdict, conc>>

Next ==
    \/ GenNullitope
    \/ GenPoint
    \/ GenDyad
    \/ GenPolygon
    \/ GenSimplex
    \/ GenHypercube
    \/ GenOrthoplex
    \/ Dual
    \/ Product
    \/ Multi
    \/ Ditope
    \/ Hosotope
    \/ GetElementVertices
    \/ Lookup
    \/ Check
    \/ Adopt
    \/ SetSub
    \/ PushSub
    \/ PopEl
    \/ PushEl

Spec == Init /\ [][Next]_vars

\* ------------------------------------------- the Concrete state machine

\* the integer coordinates
Coords == (0 - MaxCoord)..MaxCoord

\* the Concrete instances the geometric operations start from, each with as
\* many vertices as abs has elements of rank 0: the nullitope, a point and a
\* dyad on the line, a triangle and a square in the plane, and in space the
\* prism of the triangle and a dyad, with the vertex of the pair (i, j) at
\* index 2 * i + j as the product numbers it
ConcreteInputs ==
    {[vertices |-> <<>>, abs |-> nullitope]}
    \cup {[vertices |-> <<PointOf(<<x>>)>>, abs |-> point] : x \in Coords}
    \cup {[vertices |-> <<PointOf(<<x>>), PointOf(<<y>>)>>, abs |-> dyad] :
             x \in Coords, y \in Coords}
    \cup {[vertices |-> <<PointOf(<<0, 0>>), PointOf(<<3, 0>>), PointOf(<<0, 3>>)>>,
           abs |-> polygon(3)],
          [vertices |-> <<PointOf(<<0, 0>>), PointOf(<<2, 0>>),
                          PointOf(<<2, 2>>), PointOf(<<0, 2>>)>>,
           abs |-> polygon(4)],
          [vertices |-> [n \in 1..6 |->
                           LET t == <<<<0, 0>>, <<3, 0>>, <<0, 3>>>>[((n - 1) \div 2) + 1]
                           IN  PointOf(<<t[1], t[2], 3 * ((n - 1) % 2)>>)],
           abs |-> duoprism(polygon(3), dyad)]}

\* the reciprocation centers tried on c: integer points of c's dimension (of
\* dimension 1 for the nullitope, as Concrete::dual_mut passes)
Centers(c) ==
    IF c.vertices # <<>> /\ Len(c.vertices[1]) = 3
    THEN {PointOf(<<x, y, 1>>) : x \in 1..2, y \in 1..2}
    ELSE IF c.vertices # <<>> /\ Len(c.vertices[1]) = 2
         THEN {PointOf(<<x, y>>) : x \in 0..3, y \in 0..3}
         ELSE {PointOf(<<x>>) : x \in Coords}

\* the factors tried by scale
Scalars == {<<2, 1>>, <<-1, 1>>, <<0, 1>>, <<1, 2>>}

\* the matrices tried by apply on c, square and of c's dimension: a
\* reflection, a shear and a singular matrix
Matrices(c) ==
    IF c.vertices # <<>> /\ Len(c.vertices[1]) = 3
    THEN {<<PointOf(<<0, 1, 0>>), PointOf(<<1, 0, 0>>), PointOf(<<0, 0, 1>>)>>,
          <<PointOf(<<1, 1, 0>>), PointOf(<<0, 1, 0>>), PointOf(<<0, 0, 1>>)>>,
          <<PointOf(<<1, 0, 0>>), PointOf(<<0, 0, 0>>), PointOf(<<0, 0, 0>>)>>}
    ELSE IF c.vertices # <<>> /\ Len(c.vertices[1]) = 2
         THEN {<<PointOf(<<0, 1>>), PointOf(<<1, 0>>)>>,
               <<PointOf(<<1, 1>>), PointOf(<<0, 1>>)>>,
               <<PointOf(<<1, 0>>), PointOf(<<0, 0>>)>>}
         ELSE {<<PointOf(<<-1>>)>>, <<PointOf(<<2>>)>>, <<PointOf(<<0>>)>>}

InitConcrete ==
    /\ conc \in ConcreteInputs
    /\ p = <<>>
    /\ edits = 0
    /\ chain = 0
    /\ foreign = FALSE
    /\ res = NoRes
    /\ op = Op("init", 0, <<>>, <<>>)
    /\ verdict = NoVerdict

\* Concrete::dual_mut_with_sphere on conc; f is the instance before the call
\* and g the center of the sphere
DualMutWithSphere ==
    \E center \in Centers(conc) :
        /\ chain < MaxChain
        /\ LET r == dual_mut_with_sphere(conc, center)
           IN  IF dual_mut_with_sphere_aborts(conc, center)
               THEN res' = Aborted /\ conc' = conc
               ELSE res' = [st |-> r.ret, poly |-> <<>>] /\ conc' = r.self
        /\ op' = Op("dual_mut_with_sphere", 0, conc, center)
        /\ chain' = chain + 1
        /\ UNCHANGED <<p, edits, foreign, verdict>>

\* one of the transforms on conc, leaving new_conc; f is the instance before
\* the call and g the argument
Transform(name, arg, new_conc) ==
    /\ chain < MaxChain
    /\ conc' = new_conc
    /\ res' = [st |-> "ok", poly |-> <<>>]
    /\ op' = Op(name, 0, conc, arg)
    /\ chain' = chain + 1
    /\ UNCHANGED <<p, edits, foreign, verdict>>

Scale == \E k \in Scalars : Transform("scale", k, scale(conc, k))

Shift == \E o \in Centers(conc) : Transform("shift", o, shift(conc, o))

Recenter == Transform("recenter", <<>>, recenter(conc))

Apply == \E m \in Matrices(conc) : Transform("apply", m, apply(conc, m))

\* Concrete::circumsphere on conc, which it only reads
Circumsphere ==
    /\ IF circumsphere_aborts(conc) THEN res' = Aborted
       ELSE \E out \in circumsphere(conc) :
               res' = IF out = None THEN [st |-> "None", poly |-> <<>>]
                      ELSE [st |-> "Some", poly |-> out[1]]
    /\ op' = Op("circumsphere", 0, conc, <<>>)
    /\ UNCHANGED <<p, edits, chain, foreign, verdict, conc>>

NextConcrete ==
    \/ DualMutWithSphere
    \/ Scale
    \/ Shift
    \/ Recenter
    \/ Apply
    \/ Circumsphere

SpecConcrete == InitConcrete /\ [][NextConcrete]_vars

\* ------------------------------------------ construction layer by layer

\* element lists pushed as an intermediate layer onto P: none, one, two or
\* three elements, each with two subelements of the layer below when it has
\* any
Layers(P) ==
    LET m == el_count(P, rank(P))
    IN  {<<>>} \cup
        {[k \in 1..n |-> IF m = 0 THEN <<>> ELSE <<(k - 1) % m, k % m>>] :
            n \in 1..3}

\* one push onto p: when `asserted` fails in a build with debug assertions
\* the call panics with p as it was, else new_p is left; f collects the
\* pushes that returned, n is the argument and g is p before the call
Push(name, n, asserted, new_p) ==
    \E debug \in BOOLEAN :
        LET ok == asserted \/ ~debug
        IN  /\ rank(p) < MaxShapeRank
            /\ p' = IF ok THEN new_p ELSE p
            /\ res' = IF ok THEN [st |-> "ok", poly |-> <<>>] ELSE Aborted
            /\ op' = Op(name, n, IF ok THEN Append(op.f, <<name, n>>) ELSE op.f, p)
            /\ UNCHANGED <<edits, chain, foreign, verdict, conc>>

\* `debug_assert!(self.0.is_empty())`
PushMin == Push("push_min", 0, p = <<>>, push_min(p))

\* `debug_assert_eq!(self.rank(), -1)`
PushVertices ==
    \E n \in 0..MaxN : Push("push_vertices", n, rank(p) = -1, push_vertices(p, n))

\* `self.push(list)` through DerefMut, for an intermediate layer
PushLayer ==
    \E list \in Layers(p) : Push("push", Len(list), TRUE, Append(p, list))

PushMax == Push("push_max", 0, TRUE, push_max(p))

NextBuild ==
    \/ PushMin
    \/ PushVertices
    \/ PushLayer
    \/ PushMax

SpecBuild == Init /\ [][NextBuild]_vars

\* ------------------------------------------------- Polytope::new_wo_comps

\* the arguments new_wo_comps is called with: no element list at all; up to
\* MaxN vertices with any set of edges between them, in lexicographic order,
\* alone or under a single face of all the edges; and the tetrahedron, by its
\* six edges and four faces
PolytopeInputs ==
    {[vertices |-> <<>>, elements |-> <<>>]}
    \cup UNION {{[vertices |-> [k \in 1..n |-> PointOf(<<k>>)],
                  elements |->
                      LET edges == [k \in 1..Cardinality(S) |->
                                      LET code == Ascending({e[1] * n + e[2] : e \in S})[k]
                                      IN  <<code \div n, code % n>>]
                      IN  IF face THEN <<edges, <<[k \in 1..Len(edges) |-> k - 1]>>>>
                          ELSE <<edges>>] :
                    S \in SUBSET {e \in (0..(n - 1)) \X (0..(n - 1)) : e[1] < e[2]},
                    face \in BOOLEAN} :
                n \in 0..MaxN}
    \cup {[vertices |-> <<PointOf(<<0, 0, 0>>), PointOf(<<1, 0, 0>>),
                          PointOf(<<0, 1, 0>>), PointOf(<<0, 0, 1>>)>>,
           elements |-> << <<<<0, 1>>, <<0, 2>>, <<0, 3>>,
                             <<1, 2>>, <<1, 3>>, <<2, 3>>>>,
                           <<<<0, 1, 3>>, <<0, 2, 4>>, <<1, 2, 5>>, <<3, 4, 5>>>> >>]}

\* Polytope::new_wo_comps(vertices, elements); f is elements and g vertices
NewWoComps ==
    \E inp \in PolytopeInputs :
    \E out \in new_wo_comps(inp.vertices, inp.elements) :
        /\ res' = out
        /\ op' = Op("new_wo_comps", 0, inp.elements, inp.vertices)
        /\ UNCHANGED <<p, edits, chain, foreign, verdict, conc>>

SpecPolytope == Init /\ [][NewWoComps]_vars

\* ------------------------------------------------------------ properties

\* every subelement index of every element of every rank is an index into
\* the element list one rank below (there is none below rank -1)
InRange(P) ==
    \A s \in 1..Len(P) : \A i \in 1..Len(P[s]) : \A k \in 1..Len(P[s][i]) :
        s > 1 /\ P[s][i][k] < Len(P[s - 1])

\* the three validity predicates all return true
PassesChecks(P) ==
    has_min_max_elements(P) /\ check_incidences(P) = BTrue /\ is_dyadic(P) = BTrue

\* C1: if has_min_max_elements, check_incidences and is_dyadic return true on
\* P, then dual completes without aborting and check_incidences and is_dyadic
\* return true on the dual
C1_DualKeepsChecks ==
    (op.name = "dual" /\ PassesChecks(p))
        => /\ res.st = "ok"
           /\ check_incidences(res.poly) = BTrue
           /\ is_dyadic(res.poly) = BTrue

\* C2: if check_incidences and is_dyadic return true on both factors, they
\* return true on each of the four products
C2_ProductKeepsChecks ==
    (/\ op.name \in ProductKinds
     /\ res.st = "ok"
     /\ check_incidences(op.f) = BTrue /\ is_dyadic(op.f) = BTrue
     /\ check_incidences(op.g) = BTrue /\ is_dyadic(op.g) = BTrue)
        => /\ check_incidences(res.poly) = BTrue
           /\ is_dyadic(res.poly) = BTrue

\* rank(P) >= -1, and ranks -1 and rank(P) both hold at least one element
HasBottomAndTop(P) ==
    rank(P) >= -1 /\ el_count(P, -1) >= 1 /\ el_count(P, rank(P)) >= 1

\* Q has the element counts of P in reverse rank order
CountsReversed(P, Q) ==
    /\ rank(Q) = rank(P)
    /\ \A k \in -1..rank(P) : el_count(Q, k) = el_count(P, rank(P) - 1 - k)

\* dual reverses the element counts of p, and the dual of the result has the
\* rank and the element counts of p again
DualReversesAndRestores ==
    /\ res.st = "ok"
    /\ CountsReversed(p, res.poly)
    /\ ~dual_mut_aborts(res.poly)
    /\ rank(dual_mut(res.poly)) = rank(p)
    /\ \A k \in -1..rank(p) : el_count(dual_mut(res.poly), k) = el_count(p, k)

\* C3 as stated: for every P of rank R >= -1 with in-range subelement indices,
\* dual(P) has P's element counts in reverse rank order and dual(dual(P)) has
\* P's rank and element counts
C3_Original ==
    (op.name = "dual" /\ rank(p) >= -1 /\ InRange(p)) => DualReversesAndRestores

\* C3 amended: the same for every P with in-range subelement indices that has
\* at least one element at rank -1 and at least one at its top rank
C3_DualCounts ==
    (op.name = "dual" /\ InRange(p) /\ HasBottomAndTop(p))
        => DualReversesAndRestores

\* C3 witness: dual was taken of an in-range polytope of rank >= 2 whose
\* vertex and facet counts differ
C3_Witness ==
    /\ op.name = "dual" /\ InRange(p) /\ HasBottomAndTop(p)
    /\ rank(p) >= 2
    /\ el_count(p, 0) # el_count(p, rank(p) - 1)
    /\ res.st = "ok"

\* C4: polygon(n), n >= 2, has rank 2 and element counts [1, n, n, 1]; every
\* edge has two in-range vertex indices, distinct (also for n = 2); is_dyadic
\* returns true on it
C4_Polygon ==
    op.name = "polygon"
        => /\ res.st = "ok"
           /\ rank(res.poly) = 2
           /\ el_counts(res.poly) = <<1, op.n, op.n, 1>>
           /\ \A i \in 1..op.n :
                 LET e == At(res.poly, 1)[i]
                 IN  /\ Len(e) = 2
                     /\ e[1] \in 0..(op.n - 1) /\ e[2] \in 0..(op.n - 1)
                     /\ e[1] # e[2]
           /\ is_dyadic(res.poly) = BTrue

C4_Witness == op.name = "polygon" /\ op.n = 3 /\ res.st = "ok"

RECURSIVE Binom(_, _)
\* the binomial coefficient C(n, k)
Binom(n, k) ==
    IF k < 0 \/ k > n THEN 0
    ELSE IF k = 0 \/ k = n THEN 1
    ELSE Binom(n - 1, k - 1) + Binom(n - 1, k)

RECURSIVE Pow2(_)
Pow2(e) == IF e <= 0 THEN 1 ELSE 2 * Pow2(e - 1)

\* C5: simplex(n) has rank n and C(n + 1, k + 1) elements at each rank k in
\* -1..n
C5_Simplex ==
    op.name = "simplex"
        => /\ res.st = "ok"
           /\ rank(res.poly) = op.n
           /\ \A k \in -1..op.n : el_count(res.poly, k) = Binom(op.n + 1, k + 1)

C5_Witness ==
    op.name = "simplex" /\ op.n = 3 /\ el_counts(res.poly) = <<1, 4, 6, 4, 1>>

\* the number of elements of rank k of the n-cube
CubeCount(n, k) == IF k = -1 THEN 1 ELSE Pow2(n - k) * Binom(n, k)

\* C6: hypercube(n) has rank n, one element at rank -1 and 2^(n-k) * C(n, k)
\* elements at each rank k in 0..n; orthoplex(n) has rank n and the same
\* counts in reverse rank order
C6_HypercubeOrthoplex ==
    /\ op.name = "hypercube"
          => /\ res.st = "ok"
             /\ rank(res.poly) = op.n
             /\ \A k \in -1..op.n : el_count(res.poly, k) = CubeCount(op.n, k)
    /\ op.name = "orthoplex"
          => /\ res.st = "ok"
             /\ rank(res.poly) = op.n
             /\ \A k \in -1..op.n :
                   el_count(res.poly, k) = CubeCount(op.n, op.n - 1 - k)

C6_Witness ==
    op.name = "orthoplex" /\ op.n = 3 /\ el_counts(res.poly) = <<1, 6, 12, 8, 1>>

\* C7: the product has rank rank(p) + rank(q) + 1 for duopyramid, rank(p) +
\* rank(q) for duoprism and duotegum, rank(p) + rank(q) - 1 for duocomb, and
\* stores that rank + 2 element lists
C7_ProductRank ==
    (op.name \in ProductKinds /\ res.st = "ok")
        => LET R == rank(op.f) + rank(op.g) +
                    (CASE op.name = "duopyramid" -> 1
                       [] op.name = "duoprism" -> 0
                       [] op.name = "duotegum" -> 0
                       [] op.name = "duocomb" -> -1)
           IN  rank(res.poly) = R /\ Len(res.poly) = R + 2

C7_Witness ==
    /\ op.name = "duocomb" /\ res.st = "ok"
    /\ rank(op.f) = 2 /\ rank(op.g) = 2 /\ rank(res.poly) = 3

RECURSIVE SumFrom(_, _, _)
\* F(a) + F(a + 1) + ... + F(b)
SumFrom(F(_), a, b) == IF a > b THEN 0 ELSE F(a) + SumFrom(F, a + 1, b)

\* C8: every product rank k that is not synthesized afterwards holds as many
\* elements as the participating rank pairs (pr, qr) with pr + qr + (1 if min)
\* = k contribute, and the element of the pair (i of rank pr, j of rank qr)
\* sits at index (elements of the pairs with smaller pr) + i * q.el_count(qr)
\* + j
C8_ProductLayout ==
    (op.name \in ProductKinds /\ res.st = "ok")
        => LET f == op.f
               g == op.g
               min == kind_min(op.name)
               max == kind_max(op.name)
               lo == IF min THEN -1 ELSE 0
               hiF == IF max THEN rank(f) ELSE rank(f) - 1
               hiG == IF max THEN rank(g) ELSE rank(g) - 1
               R == rank(res.poly)
               QRank(k, pr) == k - pr - (IF min THEN 1 ELSE 0)
               Contributed(k, pr) ==
                   IF QRank(k, pr) >= lo /\ QRank(k, pr) <= hiG
                   THEN el_count(f, pr) * el_count(g, QRank(k, pr))
                   ELSE 0
           IN  \A k \in -1..R :
                  ((min \/ k >= 1) /\ (max \/ k # R))
                  => LET pairs == product_pairs(f, g, min, max, k)
                         Term(pr) == Contributed(k, pr)
                     IN  /\ el_count(res.poly, k) = SumFrom(Term, lo, hiF)
                         /\ Len(pairs) = el_count(res.poly, k)
                         /\ \A n \in 1..Len(pairs) :
                               LET pr == pairs[n][1]
                                   i == pairs[n][2]
                                   qr == pairs[n][3]
                                   j == pairs[n][4]
                               IN  /\ pr \in lo..hiF /\ qr \in lo..hiG
                                   /\ qr = QRank(k, pr)
                                   /\ n - 1 = SumFrom(Term, lo, pr - 1)
                                               + i * el_count(g, qr) + j
                                   /\ At(res.poly, k)[n] =
                                         product_subs(f, g, min, max, pr, i, qr, j)

\* C8 witness: a product rank fed by two rank pairs, each of several elements
C8_Witness ==
    /\ op.name = "duoprism" /\ res.st = "ok"
    /\ op.f = polygon(3) /\ op.g = polygon(3)
    /\ el_count(res.poly, 1) = 18

\* C9: check_incidences returns true exactly when every subelement index of
\* every rank, -1 up to the top rank, is in range, and false (never a panic)
\* otherwise
C9_CheckIncidences ==
    op.name = "check"
        => /\ verdict.inc \in {BTrue, BFalse}
           /\ verdict.inc = BTrue <=> InRange(p)

\* the sub-subelements of an element of rank r, with multiplicity
Grandchildren(P, r, el) == Concat([k \in 1..Len(el) |-> At(P, r - 1)[el[k] + 1]])

\* every element of a rank strictly between -1 and the top rank has each of
\* its distinct grandchildren exactly twice
DyadicBelowTop(P) ==
    \A r \in 0..(rank(P) - 1) : \A i \in 1..Len(At(P, r)) :
        LET gc == Grandchildren(P, r, At(P, r)[i])
        IN  \A x \in Range(gc) : Occurrences(gc, x) = 2

DyadicAll(P) ==
    \A r \in 0..rank(P) : \A i \in 1..Len(At(P, r)) :
        LET gc == Grandchildren(P, r, At(P, r)[i])
        IN  \A x \in Range(gc) : Occurrences(gc, x) = 2

\* C11: whenever is_dyadic returns true on a polytope with in-range
\* subelement indices, every element, the maximal element included, has each
\* of its grandchildren exactly twice among its subelements' subelement lists
C11_DyadicIncludesMax ==
    (op.name = "check" /\ InRange(p) /\ verdict.dy = BTrue) => DyadicAll(p)

\* the elements of P as pairs <<rank, position in the rank's list>>
Els(P) == UNION {{<<r, i>> : i \in 1..Len(At(P, r))} : r \in -1..rank(P)}

\* element a lists element b, of the rank below, as a subelement
Covers(P, a, b) ==
    a[1] = b[1] + 1 /\ (b[2] - 1) \in Range(At(P, a[1])[a[2]])

RECURSIVE Le(_, _, _)
\* b is a or lies below a in the order the subelement lists generate
Le(P, b, a) ==
    \/ b = a
    \/ /\ b[1] < a[1]
       /\ \E k \in 1..Len(At(P, a[1])[a[2]]) :
             Le(P, b, <<a[1] - 1, At(P, a[1])[a[2]][k] + 1>>)

\* the elements strictly between F and G
SectionProper(P, F, G) ==
    {h \in Els(P) : h # F /\ h # G /\ Le(P, F, h) /\ Le(P, h, G)}

RECURSIVE ReachIn(_, _, _)
\* the elements of S joined to one of `seen` by a path of incidences inside S
ReachIn(P, S, seen) ==
    LET more == {h \in S \ seen :
                    \E x \in seen : Covers(P, h, x) \/ Covers(P, x, h)}
    IN  IF more = {} THEN seen ELSE ReachIn(P, S, seen \cup more)

\* the incidence graph on S is connected
ConnectedSet(P, S) ==
    S = {} \/ ReachIn(P, S, {CHOOSE x \in S : TRUE}) = S

\* every section of rank at least 2 (F below G, at least three ranks apart)
\* is connected; the section between the minimal and the maximal element is
\* the whole polytope
StronglyConnected(P) ==
    \A F \in Els(P) : \A G \in Els(P) :
        (G[1] - F[1] >= 3 /\ Le(P, F, G)) => ConnectedSet(P, SectionProper(P, F, G))

\* C12: full_check returns true only for polytopes that have exactly one
\* element at rank -1 and one at the top rank, pass check_incidences, pass
\* is_dyadic and are strongly connected.  Stated for the polytopes with
\* in-range indices that are dyadic at every rank, on which the three checks
\* full_check does call decide what their documentation says
C12_FullCheck ==
    (op.name = "check" /\ verdict.full = BTrue /\ InRange(p) /\ DyadicAll(p))
        => /\ el_count(p, -1) = 1 /\ el_count(p, rank(p)) = 1
           /\ verdict.inc = BTrue
           /\ verdict.dy = BTrue
           /\ StronglyConnected(p)

\* C13: a multiproduct of no factor returns its identity (nullitope for
\* multipyramid, point for multiprism, multitegum and multicomb), and of one
\* factor returns a polytope identical to the factor; no binary product is
\* taken, so neither call can abort
C13_MultiproductIdentity ==
    op.name \in MultiNames
        => /\ op.n = 0 =>
                 res = Ok(IF op.name = "multipyramid"
                          THEN <<ElementList_min>>
                          ELSE <<ElementList_min, ElementList_max(1)>>)
           /\ op.n = 1 => res = Ok(op.f[1])

\* C13 witness: multicomb of a single polygon returned the polygon, where the
\* comb product of the polygon with the identity is a different polytope
C13_Witness ==
    /\ op.name = "multicomb" /\ op.n = 1 /\ rank(op.f[1]) = 2
    /\ res = Ok(op.f[1])
    /\ duocomb(op.f[1], point) # op.f[1]

\* the vector v holds every vertex index of P, 0..el_count(0)-1, exactly once
AllVerticesOnce(P, v) ==
    /\ Len(v) = el_count(P, 0)
    /\ \A x \in 0..(el_count(P, 0) - 1) : Occurrences(v, x) = 1

\* p was built by the generators, the products, dual and ditope alone, and
\* get_element_vertices was called for the first element of its top rank
AskedForMaximal ==
    /\ op.name = "get_element_vertices"
    /\ edits = 0 /\ ~foreign
    /\ op.n = rank(p) /\ op.g = 0

\* C14: for every polytope of rank >= 0 built from the generators, the four
\* products, dual and ditope, get_element_vertices(rank, 0) returns a list
\* that holds every vertex index 0..el_count(0)-1 exactly once (for the
\* nullitope, of rank -1, the function returns None by design)
C14_MaximalVertices ==
    (AskedForMaximal /\ rank(p) >= 0)
        => /\ res.st = "vec" /\ res.poly # None
           /\ AllVerticesOnce(p, res.poly[1])

\* P is a valid polytope as far as the three checks are meant to decide it:
\* one minimal and one maximal element, every subelement index in range,
\* every element dyadic, the maximal one included
Valid(P) == has_min_max_elements(P) /\ InRange(P) /\ DyadicAll(P)

\* C16: for every valid polytope P of rank R >= 0, hosotope(P) has rank R + 1,
\* exactly one element at rank -1 with no subelements, two elements at rank
\* 0, the element counts of P's ranks 0..R one rank higher, and
\* has_min_max_elements and check_incidences return true on it
C16_Hosotope ==
    (op.name = "hosotope" /\ Valid(p) /\ rank(p) >= 0)
        => /\ res.st = "ok"
           /\ rank(res.poly) = rank(p) + 1
           /\ el_count(res.poly, -1) = 1
           /\ At(res.poly, -1)[1] = <<>>
           /\ el_count(res.poly, 0) = 2
           /\ \A k \in 0..rank(p) : el_count(res.poly, k + 1) = el_count(p, k)
           /\ has_min_max_elements(res.poly)
           /\ check_incidences(res.poly) = BTrue

\* C17: for every valid polytope P of rank R >= 0 (every ridge in exactly two
\* facets), ditope(P) has rank R + 1, P's ranks -1..R-1 unchanged, two
\* elements at rank R that both carry the subelement list of P's maximal
\* element, one element with subelements [0, 1] at rank R + 1, and
\* has_min_max_elements, check_incidences and is_dyadic return true on it
C17_Ditope ==
    (op.name = "ditope" /\ Valid(p) /\ rank(p) >= 0)
        => /\ res.st = "ok"
           /\ rank(res.poly) = rank(p) + 1
           /\ \A k \in -1..(rank(p) - 1) : At(res.poly, k) = At(p, k)
           /\ At(res.poly, rank(p)) = <<At(p, rank(p))[1], At(p, rank(p))[1]>>
           /\ At(res.poly, rank(p) + 1) = <<<<0, 1>>>>
           /\ has_min_max_elements(res.poly)
           /\ check_incidences(res.poly) = BTrue
           /\ is_dyadic(res.poly) = BTrue

\* C17 witness: ditope was taken of a valid polygon with more than two
\* vertices, and the result is dyadic at every rank
C17_Witness ==
    /\ op.name = "ditope" /\ Valid(p) /\ rank(p) = 2 /\ el_count(p, 0) >= 3
    /\ res.st = "ok" /\ rank(res.poly) = 3
    /\ Valid(res.poly)

\* C18: RankVec::get(r) and get_mut(r) return None exactly when r < -1 or
\* r > rank() and otherwise the entry stored for rank r (the entry at
\* position r + 2 of the stored sequence); el_count(r) is 0 for every
\* out-of-range rank and the length of the entry otherwise
C18_RankVecGet ==
    op.name = "get"
        => LET r == op.n
               out == r < -1 \/ r > Len(p) - 2
           IN  /\ res.poly.get = <<>> <=> out
               /\ res.poly.get_mut = <<>> <=> out
               /\ out => res.poly.el_count = 0
               /\ ~out => /\ res.poly.get = <<p[r + 2]>>
                          /\ res.poly.get_mut = <<p[r + 2]>>
                          /\ res.poly.el_count = Len(p[r + 2])

\* C18 witness: on a polytope of rank 2 the lookups were made below rank -1,
\* at rank -1, at the top rank and above it
C18_Witness ==
    /\ op.name = "get" /\ rank(p) = 2
    /\ \/ op.n = -2 /\ res.poly.get = <<>> /\ res.poly.el_count = 0
       \/ op.n = 3 /\ res.poly.get = <<>> /\ res.poly.el_count = 0
    /\ RankVec_get(p, -1) = <<p[1]>> /\ RankVec_get(p, 2) = <<p[4]>>

\* C19: nullitope has rank -1 and counts [1], point rank 0 and counts [1, 1],
\* dyad rank 1 and counts [1, 2, 1], polygon(n) rank 2; each has exactly one
\* minimal element, without subelements, and exactly one maximal element,
\* whose subelements are all the elements of the rank below, once each
C19_BaseGenerators ==
    op.name \in {"nullitope", "point", "dyad", "polygon"}
        => LET P == res.poly
               R == Len(P) - 2
               top == P[Len(P)]
           IN  /\ res.st = "ok"
               /\ op.name = "nullitope" => R = -1 /\ el_counts(P) = <<1>>
               /\ op.name = "point" => R = 0 /\ el_counts(P) = <<1, 1>>
               /\ op.name = "dyad" => R = 1 /\ el_counts(P) = <<1, 2, 1>>
               /\ op.name = "polygon" => R = 2
               /\ Len(P[1]) = 1 /\ P[1][1] = <<>>
               /\ Len(top) = 1
               /\ Len(top[1]) = (IF R = -1 THEN 0 ELSE Len(P[Len(P) - 1]))
               /\ \A k \in 1..Len(top[1]) : top[1][k] = k - 1

\* C19 witness: dyad returned two vertices under a maximal element that
\* references both
C19_Witness ==
    /\ op.name = "dyad"
    /\ res = Ok(<<<<<<>>>>, <<<<0>>, <<0>>>>, <<<<0, 1>>>>>>)

\* the list s holds the indices j of the elements of `above` that have i
\* among their subelements, in ascending order of j, one entry per occurrence
SuperelementsOf(s, above, i) ==
    /\ \A a \in 1..(Len(s) - 1) : s[a] <= s[a + 1]
    /\ \A a \in 1..Len(s) : s[a] \in 0..(Len(above) - 1)
    /\ \A j \in 0..(Len(above) - 1) :
          Occurrences(s, j) = Occurrences(above[j + 1], i)

\* C20: after dual_mut on a polytope P of rank R with in-range indices, the
\* elements of new rank k (0 <= k <= R) are P's elements of rank R-1-k at the
\* same indices, the subelement list of element i is the list of the indices
\* j of P's rank R-k elements that had i among their subelements, ascending
\* in j with one entry per occurrence, and the new rank -1 element that was
\* P's maximal element (the first of P's top rank) has no subelements
C20_DualSubs ==
    (op.name = "dual" /\ InRange(p) /\ res.st = "ok")
        => LET R == Len(p) - 2
               D == res.poly
           IN  /\ Len(D) = Len(p)
               /\ \A k \in 0..R :
                     /\ Len(D[k + 2]) = Len(p[R - 1 - k + 2])
                     /\ \A i \in 1..Len(D[k + 2]) :
                           SuperelementsOf(D[k + 2][i], p[R - k + 2], i - 1)
               /\ Len(D[1]) = Len(p[R + 2])
               /\ D[1][1] = <<>>

\* C20 witness: dual_mut ran on an in-range polytope one of whose elements
\* lists a subelement twice, so that an element of the dual lists a
\* superelement twice
C20_Witness ==
    /\ op.name = "dual" /\ InRange(p) /\ res.st = "ok" /\ rank(p) >= 1
    /\ \E s \in 2..Len(res.poly) : \E i \in 1..Len(res.poly[s]) :
          \E a \in 1..Len(res.poly[s][i]) : \E b \in 1..Len(res.poly[s][i]) :
              a < b /\ res.poly[s][i][a] = res.poly[s][i][b]

\* a facet of c (a vertex when c has rank 1) lies within EPS of the
\* reciprocation center projected onto c's subspace
FacetThroughCenter(c, center) ==
    LET o == Subspace_project(c.vertices, center)
        R == Len(c.abs) - 2
    IN  IF R = 1
        THEN \E k \in 1..Len(c.vertices) :
                 BelowEps(NormSquared(VSub(c.vertices[k], o)))
        ELSE \E n \in 1..Len(c.abs[R + 1]) :
                 LET pts == Concrete_get_element_vertices(c, R - 1, n - 1)
                 IN  BelowEps(NormSquared(VSub(Subspace_project(pts, o), o)))

\* C15: dual_mut_with_sphere returns None exactly when a facet passes through
\* the projected reciprocation center, and then the vertex list and the
\* abstract polytope are as before the call; when it returns Some on an
\* instance of rank >= 1 the abstract polytope is dualised and there is one
\* new vertex per old facet
C15_DualWithSphereAtomic ==
    op.name = "dual_mut_with_sphere"
        => LET before == op.f
               R == Len(before.abs) - 2
           IN  /\ res.st \in {"Some", "None"}
               /\ res.st = "None" <=> (R >= 1 /\ FacetThroughCenter(before, op.g))
               /\ res.st = "None" => conc = before
               /\ (res.st = "Some" /\ R < 1) => conc = before
               /\ (res.st = "Some" /\ R >= 1)
                     => /\ conc.abs = dual_mut(before.abs)
                        /\ Len(conc.vertices) = Len(before.abs[R + 1])

\* C15 witness: on a dyad whose second vertex is the center the loop had
\* reciprocated the first vertex when it returned None, and the instance is
\* as before
C15_Witness ==
    /\ op.name = "dual_mut_with_sphere" /\ res.st = "None"
    /\ rank(op.f.abs) = 1
    /\ op.f.vertices[1] # op.g /\ op.f.vertices[2] = op.g
    /\ conc = op.f

\* --------------------------------------------------- product incidences

\* the 0-based position at which the loops of one prod_rank pushed the
\* element of the pair t, or -1 when no element was pushed for it
InsertedAt(pairs, t) ==
    LET S == {n \in 1..Len(pairs) : pairs[n] = t}
    IN  IF S = {} THEN -1 ELSE (CHOOSE n \in S : TRUE) - 1

\* C21: in a product of in-range factors, the element built from the pair
\* (a of rank pr in p, b of rank qr in q) lists the positions at which the
\* elements of the pairs (a', b), a' over a.subs in order, were pushed,
\* followed by the positions of the pairs (a, b'), b' over b.subs in order;
\* the a-part is left out exactly when pr = 0 and min is false, and the
\* b-part exactly when qr = 0 and min is false
C21_ProductSubs ==
    (op.name \in ProductKinds /\ res.st = "ok" /\ InRange(op.f) /\ InRange(op.g))
        => LET f == op.f
               g == op.g
               min == kind_min(op.name)
               max == kind_max(op.name)
               R == rank(res.poly)
           IN  \A k \in -1..R :
                  ((min \/ k >= 1) /\ (max \/ k # R))
                  => LET pairs == product_pairs(f, g, min, max, k)
                         below == product_pairs(f, g, min, max, k - 1)
                     IN  \A n \in 1..Len(pairs) :
                            LET pr == pairs[n][1]
                                i == pairs[n][2]
                                qr == pairs[n][3]
                                j == pairs[n][4]
                                a == At(f, pr)[i + 1]
                                b == At(g, qr)[j + 1]
                                aPart == IF pr = 0 /\ ~min THEN <<>>
                                         ELSE [m \in 1..Len(a) |->
                                                 InsertedAt(below, <<pr - 1, a[m], qr, j>>)]
                                bPart == IF qr = 0 /\ ~min THEN <<>>
                                         ELSE [m \in 1..Len(b) |->
                                                 InsertedAt(below, <<pr, i, qr - 1, b[m]>>)]
                            IN  /\ n <= Len(At(res.poly, k))
                                /\ At(res.poly, k)[n] = aPart \o bPart
                                /\ \A m \in 1..Len(aPart) : aPart[m] >= 0
                                /\ \A m \in 1..Len(bPart) : bPart[m] >= 0

\* C21 witness: a prism of two triangles, whose rank-2 elements come from
\* three rank pairs, one of them with its a-part left out and one with its
\* b-part left out
C21_Witness ==
    /\ op.name = "duoprism" /\ res.st = "ok"
    /\ op.f = polygon(3) /\ op.g = polygon(3)
    /\ el_count(res.poly, 2) = 15
    /\ Len(At(res.poly, 1)[1]) = 2

\* ------------------------------------------------- Concrete invariants

\* C22: when a Concrete has as many vertices as its abstract polytope has
\* elements of rank 0, it still has after every dual_mut_with_sphere that
\* returns Some: below rank 1 nothing changes, at rank 1 the two vertices are
\* reciprocated about the projected center, and from rank 2 on there is one
\* new vertex per old facet
C22_DualKeepsVertexCount ==
    (/\ op.name = "dual_mut_with_sphere" /\ res.st = "Some"
     /\ Len(op.f.vertices) = el_count(op.f.abs, 0))
        => LET before == op.f
               R == rank(before.abs)
           IN  /\ Len(conc.vertices) = el_count(conc.abs, 0)
               /\ R < 1 => conc = before
               /\ R = 1 =>
                     LET o == Subspace_project(before.vertices, op.g)
                     IN  /\ Len(conc.vertices) = 2
                         /\ \A i \in 1..2 :
                               LET d == VSub(before.vertices[i], o)
                               IN  conc.vertices[i] =
                                       VAdd(o, VDiv(d, NormSquared(d)))
               /\ R >= 2 => Len(conc.vertices) = el_count(before.abs, R - 1)

\* C22 witness: the prism, with six vertices and five facets, dualised into
\* an instance of five vertices
C22_Witness ==
    /\ op.name = "dual_mut_with_sphere" /\ res.st = "Some"
    /\ rank(op.f.abs) = 3
    /\ Len(op.f.vertices) = 6
    /\ Len(conc.vertices) = 5

\* ------------------------------------------------- vertices of an element

RECURSIVE DescendToVertices(_, _, _)
\* the rank-0 indices at the end of the chains of subelement references that
\* descend from element i of rank r >= 0
DescendToVertices(P, r, i) ==
    IF r = 0 THEN {i}
    ELSE UNION {DescendToVertices(P, r - 1, s) : s \in Range(At(P, r)[i + 1])}

\* C23: get_element_vertices(rank, idx) returns None exactly when rank is
\* -1; for rank >= 0 and an existing element of a polytope whose subelement
\* indices are in range it returns a list without duplicates whose members are
\* exactly the rank-0 indices reached from the element by descending chains
\* of subelement references, which for rank 0 is idx alone
C23_ElementVertices ==
    op.name = "get_element_vertices"
        => /\ (res.st = "vec" /\ res.poly = None) <=> op.n = -1
           /\ (/\ op.n >= 0 /\ InRange(p)
               /\ RankOk(p, op.n) /\ IndexOk(At(p, op.n), op.g))
                 => /\ res.st = "vec" /\ res.poly # None
                    /\ \A x \in Range(res.poly[1]) :
                          Occurrences(res.poly[1], x) = 1
                    /\ Range(res.poly[1]) = DescendToVertices(p, op.n, op.g)
                    /\ op.n = 0 => res.poly[1] = <<op.g>>

\* C23 witness: a facet of a polytope of rank 3 with at least three of the
\* vertices, but not all of them
C23_Witness ==
    /\ op.name = "get_element_vertices" /\ res.st = "vec"
    /\ op.n = 2 /\ rank(p) = 3 /\ InRange(p)
    /\ res.poly # None
    /\ Len(res.poly[1]) >= 3
    /\ Len(res.poly[1]) < el_count(p, 0)

\* ------------------------------------------ construction layer by layer

\* the last call came in the order push_min, push_vertices, intermediate
\* layers, push_max: h holds the pushes that had returned before it
InOrder(name, h) ==
    \/ name = "push_min" /\ h = <<>>
    \/ name = "push_vertices" /\ Len(h) = 1 /\ h[1][1] = "push_min"
    \/ /\ name \in {"push", "push_max"}
       /\ Len(h) >= 2
       /\ h[1][1] = "push_min" /\ h[2][1] = "push_vertices"
       /\ \A k \in 3..Len(h) : h[k][1] = "push"

\* C24: starting from the empty Abstract, every push that returns raises the
\* rank by exactly one, so the rank is the number of pushes less two; in the
\* order push_min, push_vertices(n), intermediate layers, push_max no push
\* panics; push_max appends a single element whose subelements are 0, ...,
\* m - 1 in this order, m being the element count of the rank on top before
\* the call; and push_min, push_vertices(2), push_max leaves dyad()
C24_LayeredConstruction ==
    /\ rank(p) = Len(op.f) - 2
    /\ (op.name \in {"push_min", "push_vertices", "push", "push_max"}
            /\ res.st = "ok")
          => /\ rank(p) = rank(op.g) + 1
             /\ \A s \in 1..Len(op.g) : p[s] = op.g[s]
    /\ InOrder(op.name, SubSeq(op.f, 1, rank(op.g) + 2)) => res.st = "ok"
    /\ (op.name = "push_max" /\ res.st = "ok")
          => LET m == IF op.g = <<>> THEN 0 ELSE Len(op.g[Len(op.g)])
             IN  /\ Len(At(p, rank(p))) = 1
                 /\ Len(At(p, rank(p))[1]) = m
                 /\ \A k \in 1..m : At(p, rank(p))[1][k] = k - 1
    /\ op.f = <<<<"push_min", 0>>, <<"push_vertices", 2>>, <<"push_max", 0>>>>
          => p = dyad

\* C24 witness: push_min, push_vertices(3), a layer of three elements and
\* push_max, which leaves a maximal element over the three
C24_Witness ==
    /\ op.f = <<<<"push_min", 0>>, <<"push_vertices", 3>>, <<"push", 3>>,
                <<"push_max", 0>>>>
    /\ el_counts(p) = <<1, 3, 3, 1>>
    /\ At(p, 2)[1] = <<0, 1, 2>>

\* ------------------------------------------------------------ transforms

\* the mean of the k-th coordinates of the vertices vs
MeanCoordinate(vs, k) ==
    RDiv(RSum([j \in 1..Len(vs) |-> vs[j][k]]), <<Len(vs), 1>>)

\* what a transform makes of the single vertex v of the instance `before`
TransformedVertex(name, arg, before, v) ==
    IF name = "scale" THEN [k \in 1..Len(v) |-> RMul(v[k], arg)]
    ELSE IF name = "shift" THEN [k \in 1..Len(v) |-> RSub(v[k], arg[k])]
    ELSE IF name = "recenter"
         THEN [k \in 1..Len(v) |-> RSub(v[k], MeanCoordinate(before.vertices, k))]
         ELSE [r \in 1..Len(arg) |->
                 RSum([k \in 1..Len(v) |-> RMul(arg[r][k], v[k])])]

\* C25: scale, shift, recenter and apply leave the abstract polytope as it
\* was and keep the number and the order of the vertices: vertex i afterwards
\* is vertex i before times k, less o, less the gravicenter, or under the
\* matrix m, whatever the other vertices are; recenter on an instance without
\* vertices returns it unchanged
C25_TransformsKeepStructure ==
    op.name \in {"scale", "shift", "recenter", "apply"}
        => LET before == op.f
           IN  /\ res.st = "ok"
               /\ conc.abs = before.abs
               /\ Len(conc.vertices) = Len(before.vertices)
               /\ \A i \in 1..Len(before.vertices) :
                     conc.vertices[i] =
                         TransformedVertex(op.name, op.g, before, before.vertices[i])
               /\ (op.name = "recenter" /\ before.vertices = <<>>)
                     => conc = before

\* C25 witness: a triangle recentered from a gravicenter other than the
\* origin
C25_Witness ==
    /\ op.name = "recenter" /\ res.st = "ok"
    /\ Len(op.f.vertices) = 3
    /\ conc.vertices # op.f.vertices
    /\ conc.abs = polygon(3)

\* ------------------------------------------------------------ components

\* facets i and j (0-based) of the element lists els are linked through a
\* chain of facets of which each shares a ridge with the next
FacetsConnected(facets, i, j) ==
    LET Step(S) == S \cup {m \in 1..Len(facets) :
                              \E n \in S : Range(facets[m]) \cap Range(facets[n]) # {}}
        S1 == Step({i + 1})
        S2 == Step(S1)
        S3 == Step(S2)
        S4 == Step(S3)
        S5 == Step(S4)
    IN  (j + 1) \in Step(S5)

\* C26: new_wo_comps appends exactly one element list, the components; every
\* facet index is in exactly one component, once, every entry of a component
\* is a facet index, and two facets are in the same component exactly when
\* they are linked in the incidence graph of facets and ridges
C26_Components ==
    (op.name = "new_wo_comps" /\ res.st = "ok")
        => LET before == op.f
               after == res.poly.elements
               facets == before[Len(before)]
               comps == after[Len(after)]
               all == Concat(comps)
           IN  /\ Len(after) = Len(before) + 1
               /\ \A d \in 1..Len(before) : after[d] = before[d]
               /\ \A i \in 0..(Len(facets) - 1) : Occurrences(all, i) = 1
               /\ \A k \in 1..Len(all) : all[k] < Len(facets)
               /\ \A i \in 0..(Len(facets) - 1) : \A j \in 0..(Len(facets) - 1) :
                     (\E c \in 1..Len(comps) : {i, j} \subseteq Range(comps[c]))
                         <=> FacetsConnected(facets, i, j)

\* ------------------------------------------------------------ double dual

\* no element of P lists a subelement twice
NoRepeatedSubs(P) ==
    \A s \in 1..Len(P) : \A i \in 1..Len(P[s]) :
        \A x \in Range(P[s][i]) : Occurrences(P[s][i], x) = 1

\* the dual of res.poly does not panic and has, at every rank, as many
\* elements as p, element i listing the subelements of p's element i in
\* ascending order
DoubleDualRestoresSubs ==
    /\ res.st = "ok"
    /\ ~dual_mut_aborts(res.poly)
    /\ LET dd == dual_mut(res.poly)
       IN  /\ Len(dd) = Len(p)
           /\ \A s \in 1..Len(p) :
                 /\ Len(dd[s]) = Len(p[s])
                 /\ \A i \in 1..Len(p[s]) : dd[s][i] = Ascending(Range(p[s][i]))

\* C29 as stated: for every P with in-range subelement indices, no repeated
\* subelement within an element and a minimal element without subelements,
\* dual(dual(P)) has P's element counts and element i lists the subelements
\* of P's element i in ascending order
C29_Original ==
    (/\ op.name = "dual" /\ InRange(p) /\ NoRepeatedSubs(p)
     /\ el_count(p, -1) >= 1 /\ At(p, -1)[1] = <<>>)
        => DoubleDualRestoresSubs

\* C29 amended: the same for every such P that has at least one element at
\* its top rank and exactly one element of rank -1
C29_DoubleDualSubs ==
    (/\ op.name = "dual" /\ InRange(p) /\ NoRepeatedSubs(p)
     /\ HasBottomAndTop(p)
     /\ el_count(p, -1) = 1 /\ At(p, -1)[1] = <<>>)
        => DoubleDualRestoresSubs

\* C29 witness: dual was taken of such a polytope of rank >= 2 in which some
\* element lists its subelements out of ascending order
C29_Witness ==
    /\ op.name = "dual" /\ res.st = "ok"
    /\ InRange(p) /\ NoRepeatedSubs(p) /\ HasBottomAndTop(p)
    /\ el_count(p, -1) = 1
    /\ rank(p) >= 2
    /\ \E s \in 1..Len(p) : \E i \in 1..Len(p[s]) :
          p[s][i] # Ascending(Range(p[s][i]))

\* ------------------------------------------------- products and identities

\* `other` is a valid polytope and `identity` is the identity the product
\* family of the last call declares
ProductWithIdentity(other, identity) ==
    /\ Valid(other) /\ NoRepeatedSubs(other)
    /\ identity = kind_identity(op.name)

\* the last call returned a polytope with the rank, the element counts and
\* the subelement lists of `other`
ReturnedSame(other) ==
    /\ res.st = "ok"
    /\ rank(res.poly) = rank(other)
    /\ el_counts(res.poly) = el_counts(other)
    /\ res.poly = other

\* C27: for every valid P, duopyramid(P, nullitope), duoprism(P, point),
\* duotegum(P, point) and duocomb(P, point), and the same with the arguments
\* swapped, return a polytope with the rank, the element counts and the
\* subelement lists of P
C27_IdentityProducts ==
    op.name \in ProductKinds
        => /\ ProductWithIdentity(op.f, op.g) => ReturnedSame(op.f)
           /\ ProductWithIdentity(op.g, op.f) => ReturnedSame(op.g)

\* C28: for valid p and q of any ranks >= -1, nullitope and point included,
\* each of the four binary products returns a polytope and does not panic
C28_ProductsTotal ==
    (/\ op.name \in ProductKinds
     /\ Valid(op.f) /\ rank(op.f) >= -1
     /\ Valid(op.g) /\ rank(op.g) >= -1)
        => res.st = "ok"

\* ---------------------------------------------------------- circumsphere

\* C30: circumsphere does not panic on any Concrete, one without vertices
\* included: it returns Some(sphere) or None
C30_CircumsphereTotal ==
    op.name = "circumsphere" => res.st \in {"Some", "None"}

====
